---- MODULE Spec2Model ----
(***************************************************************************)
(* gocmd2: the interactive shell (package shell), its core module          *)
(* (package core) and the timer example.  The model follows the Go source: *)
(* the Shell struct's fields are the variables, every exported method is   *)
(* an operator from a shell record to the shell record it leaves behind,   *)
(* and the actions are the calls an application or a typed line can make.  *)
(***************************************************************************)
EXTENDS Integers, Sequences, FiniteSets, TLC

VARIABLES
    commandModules,   \* Shell.commandModules: registered module objects, in order
    enabledModules,   \* Shell.enabledModules: map module name -> bool
    moduleCommands,   \* Shell.moduleCommands: map module name -> command list
    rootCmds,         \* rootCmd.commands: the commands attached to the root
    completer,        \* rl.Config.AutoComplete: completed command names
    State,            \* Shell.State: map key -> value
    currentPrompt,    \* Shell.currentPrompt
    runWrap,          \* per command: the exit handlers wrapped around its Run
    initLog,          \* history: the modules whose Initialize was called, in order
    hookSaw,          \* history: what the last Initialize found when it started
    rootArgs,         \* rootCmd.args, as left by SetArgs
    pc,               \* where the application is: setup, running, exiting, ...
    pending,          \* exit handlers of the running exit command still to call
    hookLog,          \* exit handlers in the order they were called
    registered,       \* history: the handlers passed to OnExit, in call order
    call,             \* history: the last API call made
    ret,              \* history: what that call returned
    rep,              \* history: the last call repeats the call before it
    snap,             \* history: the registry before the last effective DisableModule
    out,              \* what the last call printed
    lastSet,          \* history: per key, the value of the last completed SetState
    writers,          \* stateMutex: contexts holding the write lock
    readers,          \* stateMutex: contexts holding a read lock
    cpc,              \* per concurrent context: its position in SetState/GetState
    creq,             \* per concurrent context: the call it is executing
    cret              \* per concurrent context: what its last GetState returned

shVars == <<commandModules, enabledModules, moduleCommands, rootCmds, completer,
            State, currentPrompt, runWrap, lastSet, initLog, hookSaw>>
sessVars == <<rootArgs, pc, pending, hookLog, registered>>
histVars == <<call, ret, rep, snap, out>>
concVars == <<writers, readers, cpc, creq, cret>>
vars == <<shVars, sessVars, histVars, concVars>>

----------------------------------------------------------------------------
(* Bounds *)

\* how many exit handlers an application registers
MaxHooks == 2
\* how many concurrent contexts use the shared state
NumCtx == 2

----------------------------------------------------------------------------
(* Generic helpers *)

Range(s) == {s[i] : i \in DOMAIN s}

\* Go map assignment m[k] = v
MapSet(m, k, v) == [x \in (DOMAIN m) \cup {k} |-> IF x = k THEN v ELSE m[x]]

\* Go map read of a bool map: the zero value false for a missing key
MapBool(m, k) == IF k \in DOMAIN m THEN m[k] ELSE FALSE

\* Go map read of a slice map: the nil slice for a missing key
MapList(m, k) == IF k \in DOMAIN m THEN m[k] ELSE <<>>

Count(x, s) == Cardinality({i \in DOMAIN s : s[i] = x})

Reverse(s) == [i \in 1..Len(s) |-> s[Len(s) + 1 - i]]

IsPrefix(p, s) == Len(p) <= Len(s) /\ \A i \in 1..Len(p) : p[i] = s[i]

----------------------------------------------------------------------------
(* The modules an application can register, and their commands *)

CoreModule == "core_m"
TimerModule == "timer_m"
\* further modules an application may bring: one that disables itself in
\* Initialize and has a command named like the timer's, and one that reuses
\* the name "timer"
NetModule == "net_m"
Timer2Module == "timer2_m"

UserModules == {TimerModule, NetModule, Timer2Module}

Name(m) ==
    CASE m = CoreModule -> "core"
      [] m = TimerModule -> "timer"
      [] m = NetModule -> "net"
      [] m = Timer2Module -> "timer"

\* Module names a caller may pass; "ghost" is the name of no module
ModuleNames == {"core", "timer", "net", "ghost"}

GetCommands(m) ==
    CASE m = CoreModule -> <<"c_exit", "c_modules", "c_enable", "c_disable">>
      [] m = TimerModule -> <<"t_time", "t_reset">>
      [] m = NetModule -> <<"n_ping", "n_time">>
      [] m = Timer2Module -> <<"u_time", "u_lap">>

\* cobra's help command, added to the root by Execute
HelpCmd == "x_help"

AllCmds == UNION {Range(GetCommands(m)) : m \in UserModules \cup {CoreModule}}
               \cup {HelpCmd}

\* Command.Name(): the first word of Use
CmdName(c) ==
    CASE c = "c_exit" -> "exit"
      [] c = "c_modules" -> "modules"
      [] c = "c_enable" -> "enable"
      [] c = "c_disable" -> "disable"
      [] c = "t_time" -> "time"
      [] c = "t_reset" -> "reset"
      [] c = "n_ping" -> "ping"
      [] c = "n_time" -> "time"
      [] c = "u_time" -> "time"
      [] c = "u_lap" -> "lap"
      [] c = HelpCmd -> "help"

Aliases(c) == IF c = "n_ping" THEN {"p"} ELSE {}

\* the order sort.Sort(commandSorterByName) compares names by
NameOrder == <<"disable", "enable", "exit", "help", "lap", "modules", "ping",
               "reset", "time">>

NameRank(n) == CHOOSE i \in DOMAIN NameOrder : NameOrder[i] = n

----------------------------------------------------------------------------
(* cobra.Command, as far as the shell uses it *)

\* AddCommand: append to the parent's commands
AddCommand(cmds, c) == Append(cmds, c)

AddCommands(cmds, list) == cmds \o list

\* RemoveCommand: drop every occurrence of the command (pointer identity)
RemoveCommand(cmds, c) == SelectSeq(cmds, LAMBDA x : x # c)

RemoveCommands(cmds, list) == SelectSeq(cmds, LAMBDA x : x \notin Range(list))

RECURSIVE InsertByName(_, _)
InsertByName(sorted, c) ==
    IF sorted = <<>> THEN <<c>>
    ELSE IF NameRank(CmdName(sorted[Len(sorted)])) <= NameRank(CmdName(c))
         THEN Append(sorted, c)
         ELSE Append(InsertByName(SubSeq(sorted, 1, Len(sorted) - 1), c),
                     sorted[Len(sorted)])

RECURSIVE SortByName(_)
SortByName(cmds) ==
    IF cmds = <<>> THEN <<>>
    ELSE InsertByName(SortByName(SubSeq(cmds, 1, Len(cmds) - 1)), cmds[Len(cmds)])

\* Commands(): the children, sorted by name (insertion sort below 12 entries)
Commands(cmds) == SortByName(cmds)

\* findNext: the first child whose name or alias is the token
FindNext(cmds, tok) ==
    LET hits == {i \in DOMAIN cmds :
                    tok = <<CmdName(cmds[i])>> \/ \E a \in Aliases(cmds[i]) : tok = <<a>>}
    IN IF hits = {} THEN "none"
       ELSE cmds[CHOOSE i \in hits : \A j \in hits : i <= j]

----------------------------------------------------------------------------
(* The shell record *)

Sh == [commandModules |-> commandModules, enabledModules |-> enabledModules,
       moduleCommands |-> moduleCommands, rootCmds |-> rootCmds,
       completer |-> completer, State |-> State, runWrap |-> runWrap,
       currentPrompt |-> currentPrompt, lastSet |-> lastSet,
       initLog |-> initLog, hookSaw |-> hookSaw]

Install(s) ==
    /\ commandModules' = s.commandModules
    /\ enabledModules' = s.enabledModules
    /\ moduleCommands' = s.moduleCommands
    /\ rootCmds' = s.rootCmds
    /\ completer' = s.completer
    /\ State' = s.State
    /\ runWrap' = s.runWrap
    /\ currentPrompt' = s.currentPrompt
    /\ lastSet' = s.lastSet
    /\ initLog' = s.initLog
    /\ hookSaw' = s.hookSaw

\* updateCompleter: one completion item per root command, in Commands() order
updateCompleter(s) ==
    LET sorted == Commands(s.rootCmds)
    IN [s EXCEPT !.rootCmds = sorted,
                 !.completer = [i \in DOMAIN sorted |-> CmdName(sorted[i])]]

\* the "module exists" loop of EnableModule and DisableModule
ModuleFound(s, moduleName) ==
    \E i \in DOMAIN s.commandModules : Name(s.commandModules[i]) = moduleName

----------------------------------------------------------------------------
(* Shared state *)

\* a map write that keeps the value of a key already present
StateWriteIfAbsent(st, key, value) ==
    IF key \in DOMAIN st THEN st ELSE MapSet(st, key, value)

StateWrite(st, key, value) == MapSet(st, key, value)

SetStateF(s, key, value) ==
    [s EXCEPT !.State = StateWrite(s.State, key, value),
              !.lastSet = MapSet(@, key, value)]

GetStateF(s, key) ==
    IF key \in DOMAIN s.State THEN <<s.State[key], TRUE>> ELSE <<"nil", FALSE>>

----------------------------------------------------------------------------
(* Module registry *)

\* EnableModule without the "module exists" check
EnableModuleNoFoundCheck(s, moduleName) ==
    IF MapBool(s.enabledModules, moduleName)
    THEN [s |-> s, err |-> "nil"]
    ELSE [s |-> updateCompleter(
                  [s EXCEPT !.enabledModules = MapSet(@, moduleName, TRUE),
                            !.rootCmds = AddCommands(@, MapList(s.moduleCommands, moduleName))]),
          err |-> "nil"]

\* EnableModule without the "already enabled" return
EnableModuleNoEnabledCheck(s, moduleName) ==
    IF ~ModuleFound(s, moduleName)
    THEN [s |-> s, err |-> "module not found"]
    ELSE [s |-> updateCompleter(
                  [s EXCEPT !.enabledModules = MapSet(@, moduleName, TRUE),
                            !.rootCmds = AddCommands(@, MapList(s.moduleCommands, moduleName))]),
          err |-> "nil"]

\* EnableModule that sets the flag and adds no command
EnableModuleFlagOnly(s, moduleName) ==
    IF ~ModuleFound(s, moduleName)
    THEN [s |-> s, err |-> "module not found"]
    ELSE IF MapBool(s.enabledModules, moduleName)
    THEN [s |-> s, err |-> "nil"]
    ELSE [s |-> updateCompleter(
                  [s EXCEPT !.enabledModules = MapSet(@, moduleName, TRUE)]),
          err |-> "nil"]

EnableModuleF(s, moduleName) ==
    IF ~ModuleFound(s, moduleName)
    THEN [s |-> s, err |-> "module not found"]
    ELSE IF MapBool(s.enabledModules, moduleName)
    THEN [s |-> s, err |-> "nil"]
    ELSE [s |-> updateCompleter(
                  [s EXCEPT !.enabledModules = MapSet(@, moduleName, TRUE),
                            !.rootCmds = AddCommands(@, MapList(s.moduleCommands, moduleName))]),
          err |-> "nil"]

\* DisableModule that clears the flag and leaves the commands on the root
DisableModuleKeepsCommands(s, moduleName) ==
    IF moduleName = "core"
    THEN [s |-> s, err |-> "cannot disable core module"]
    ELSE IF ~ModuleFound(s, moduleName)
    THEN [s |-> s, err |-> "module not found"]
    ELSE IF ~MapBool(s.enabledModules, moduleName)
    THEN [s |-> s, err |-> "nil"]
    ELSE [s |-> updateCompleter(
                  [s EXCEPT !.enabledModules = MapSet(@, moduleName, FALSE)]),
          err |-> "nil"]

\* DisableModule without the guard on "core"
DisableModuleNoCoreGuard(s, moduleName) ==
    IF ~ModuleFound(s, moduleName)
    THEN [s |-> s, err |-> "module not found"]
    ELSE IF ~MapBool(s.enabledModules, moduleName)
    THEN [s |-> s, err |-> "nil"]
    ELSE [s |-> updateCompleter(
                  [s EXCEPT !.enabledModules = MapSet(@, moduleName, FALSE),
                            !.rootCmds = RemoveCommands(@, MapList(s.moduleCommands, moduleName))]),
          err |-> "nil"]

DisableModuleF(s, moduleName) ==
    IF moduleName = "core"
    THEN [s |-> s, err |-> "cannot disable core module"]
    ELSE IF ~ModuleFound(s, moduleName)
    THEN [s |-> s, err |-> "module not found"]
    ELSE IF ~MapBool(s.enabledModules, moduleName)
    THEN [s |-> s, err |-> "nil"]
    ELSE [s |-> updateCompleter(
                  [s EXCEPT !.enabledModules = MapSet(@, moduleName, FALSE),
                            !.rootCmds = RemoveCommands(@, MapList(s.moduleCommands, moduleName))]),
          err |-> "nil"]

IsModuleEnabledF(s, moduleName) == MapBool(s.enabledModules, moduleName)

\* GetModules that lists the enabled modules only
GetModulesEnabledOnly(s) ==
    LET on == SelectSeq(s.commandModules,
                        LAMBDA m : MapBool(s.enabledModules, Name(m)))
    IN [i \in DOMAIN on |-> Name(on[i])]

GetModulesF(s) == [i \in DOMAIN s.commandModules |-> Name(s.commandModules[i])]

\* GetModuleCommands returns the shell's own map, GetRootCmd its own root
GetModuleCommandsF(s) == s.moduleCommands

GetRootCmdF(s) == s.rootCmds

\* what Initialize of module m finds in the shell it is called with
HookView(s, m) ==
    [module |-> m,
     listed |-> m \in Range(s.commandModules),
     recorded |-> Name(m) \in DOMAIN s.moduleCommands
                    /\ s.moduleCommands[Name(m)] = GetCommands(m),
     enabled |-> MapBool(s.enabledModules, Name(m)),
     attached |-> Range(GetCommands(m)) \subseteq Range(s.rootCmds),
     selfErr |-> "none"]

\* Initialize of each module, called with the shell
InitializeF(s, m) ==
    LET s0 == [s EXCEPT !.initLog = Append(@, m), !.hookSaw = HookView(s, m)]
    IN CASE m = CoreModule -> s0
         [] m = TimerModule -> SetStateF(s0, "start_time", "now")
         [] m = NetModule ->
                LET r == DisableModuleF(s0, Name(m))
                IN [r.s EXCEPT !.hookSaw.selfErr = r.err]
         [] m = Timer2Module -> s0

\* RegisterModule that forgets to mark the module enabled
RegisterModuleNoEnable(s, m) ==
    LET moduleName == Name(m)
        commands == GetCommands(m)
        s1 == [s EXCEPT !.commandModules = Append(@, m),
                        !.moduleCommands = MapSet(@, moduleName, commands),
                        !.rootCmds = AddCommands(@, commands)]
    IN updateCompleter(InitializeF(s1, m))

\* RegisterModule that calls Initialize before it enables the module and
\* adds its commands
RegisterModuleInitFirst(s, m) ==
    LET moduleName == Name(m)
        commands == GetCommands(m)
        s1 == InitializeF([s EXCEPT !.commandModules = Append(@, m),
                                    !.moduleCommands = MapSet(@, moduleName, commands)], m)
    IN updateCompleter([s1 EXCEPT !.enabledModules = MapSet(@, moduleName, TRUE),
                                  !.rootCmds = AddCommands(@, commands)])

RegisterModuleF(s, m) ==
    LET moduleName == Name(m)
        commands == GetCommands(m)
        s1 == [s EXCEPT !.commandModules = Append(@, m),
                        !.moduleCommands = MapSet(@, moduleName, commands),
                        !.enabledModules = MapSet(@, moduleName, TRUE),
                        !.rootCmds = AddCommands(@, commands)]
    IN updateCompleter(InitializeF(s1, m))

----------------------------------------------------------------------------
(* Exit handlers *)

\* the handlers, each named by its place in the order of the OnExit calls
Hooks == 1..MaxHooks

\* OnExit that calls fn after the handlers already there
OnExitAppend(s, fn) ==
    LET sorted == Commands(s.rootCmds)
        hits == {i \in DOMAIN sorted : CmdName(sorted[i]) = "exit"}
    IN IF hits = {} THEN [s EXCEPT !.rootCmds = sorted]
       ELSE LET cmd == sorted[CHOOSE i \in hits : \A j \in hits : i <= j]
            IN [s EXCEPT !.rootCmds = sorted,
                         !.runWrap = [@ EXCEPT ![cmd] = @ \o <<fn>>]]

\* OnExit that wraps fn around the command's first Run, dropping earlier handlers
OnExitReplace(s, fn) ==
    LET sorted == Commands(s.rootCmds)
        hits == {i \in DOMAIN sorted : CmdName(sorted[i]) = "exit"}
    IN IF hits = {} THEN [s EXCEPT !.rootCmds = sorted]
       ELSE LET cmd == sorted[CHOOSE i \in hits : \A j \in hits : i <= j]
            IN [s EXCEPT !.rootCmds = sorted,
                         !.runWrap = [@ EXCEPT ![cmd] = <<fn>>]]

\* OnExit: wrap fn around the Run of the first root command named "exit"
OnExitF(s, fn) ==
    LET sorted == Commands(s.rootCmds)
        hits == {i \in DOMAIN sorted : CmdName(sorted[i]) = "exit"}
    IN IF hits = {} THEN [s EXCEPT !.rootCmds = sorted]
       ELSE LET cmd == sorted[CHOOSE i \in hits : \A j \in hits : i <= j]
            IN [s EXCEPT !.rootCmds = sorted,
                         !.runWrap = [@ EXCEPT ![cmd] = <<fn>> \o @]]

----------------------------------------------------------------------------
(* Lines: sequences of symbols, a symbol being a word, a space or a tab *)

IsSpace(x) == x \in {" ", "\t"}

RECURSIVE TrimLeft(_)
TrimLeft(line) ==
    IF line # <<>> /\ IsSpace(Head(line)) THEN TrimLeft(Tail(line)) ELSE line

\* strings.TrimSpace
TrimSpace(line) == Reverse(TrimLeft(Reverse(TrimLeft(line))))

\* strings.Split(line, " "): cut at every single space
RECURSIVE Split(_)
Split(line) ==
    IF line = <<>> THEN << <<>> >>
    ELSE LET rest == Split(Tail(line))
         IN IF Head(line) = " " THEN << <<>> >> \o rest
            ELSE << <<Head(line)>> \o Head(rest) >> \o Tail(rest)

\* a token as the string a handler compares with a name
Str(tok) == IF Len(tok) = 1 THEN tok[1] ELSE "?"

Lines ==
    { <<"exit">>, <<"time">>, <<"reset">>, <<"p">>, <<"bogus">>,
      <<" ">>, <<"enable", " ", "timer">>, <<"disable", " ", "timer">>,
      <<"disable", " ", "core">>, <<"enable", " ", "ghost">>,
      <<"disable", " ", " ", "timer">>, <<"enable", "\t", "timer">> }

\* the lines that ask for help, and lines that change what help shows
HelpLines ==
    { <<"help">>, <<"time", " ", "--help">>, <<"p", " ", "--help">>,
      <<"bogus", " ", "--help">>, <<"help", " ", "p">>, <<"help", " ", "bogus">>,
      <<"p">>, <<"disable", " ", "timer">>, <<"enable", " ", "net">> }

----------------------------------------------------------------------------
(* Command execution: rootCmd.Execute() with the args SetArgs left *)

\* InitDefaultHelpCmd: the help command is removed and added again
InitDefaultHelpCmd(cmds) == AddCommand(RemoveCommand(cmds, HelpCmd), HelpCmd)

\* argsMinusFirstX: the args without the first occurrence of x
ArgsMinusFirstX(args, x) ==
    LET hits == {i \in DOMAIN args : args[i] = x}
    IN IF hits = {} THEN args
       ELSE LET k == CHOOSE i \in hits : \A j \in hits : i <= j
            IN SubSeq(args, 1, k - 1) \o SubSeq(args, k + 1, Len(args))

\* what a call prints: the kind of text and the name it carries; a help
\* listing also has its groups and its list of disabled modules
Printed(kind, name) ==
    [kind |-> kind, name |-> name, groups |-> <<>>, disabled |-> <<>>,
     hasDisabledModules |-> FALSE]

\* nothing printed
NoOut == Printed("none", "")

\* the orders in which a range over a map with the keys S can visit them
Perms(S) ==
    {f \in [1..Cardinality(S) -> S] : \A i, j \in DOMAIN f : f[i] = f[j] => i = j}

\* GetEnabledModules: the enabled names, in the order the map was visited
EnabledKeys(s) == {n \in DOMAIN s.enabledModules : s.enabledModules[n]}

GetEnabledModulesF(s, order) == order

\* the listing's cmdList of a module: for each of its recorded commands
\* the first command of the root with the same name, if there is one; the
\* listing prints the names
CmdList(s, moduleName) ==
    LET rootNames == {CmdName(c) : c \in Range(s.rootCmds)}
        onRoot == SelectSeq(s.moduleCommands[moduleName],
                            LAMBDA c : CmdName(c) \in rootNames)
    IN [i \in DOMAIN onRoot |-> CmdName(onRoot[i])]

\* the listing's modules map, the help command joined to the core group
HelpModules(s) ==
    LET on == {n \in DOMAIN s.moduleCommands : IsModuleEnabledF(s, n)}
        help == HelpCmd \in Range(s.rootCmds)
    IN [n \in on \cup (IF help THEN {"core"} ELSE {}) |->
          (IF n \in on THEN CmdList(s, n) ELSE <<>>)
             \o (IF n = "core" /\ help THEN <<CmdName(HelpCmd)>> ELSE <<>>)]

\* the listing with every registered module under "Disabled modules"
HelpListingAllDisabled(s, order) ==
    LET modules == HelpModules(s)
        shown == SelectSeq(GetEnabledModulesF(s, order),
                     LAMBDA n : n \in DOMAIN modules /\ modules[n] # <<>>)
        off == GetModulesF(s)
    IN [kind |-> "listing", name |-> "",
        groups |-> [i \in DOMAIN shown |-> <<shown[i], modules[shown[i]]>>],
        disabled |-> off, hasDisabledModules |-> off # <<>>]

\* the help function with the groups ordered as GetEnabledModules returns them
HelpListing(s, order) ==
    LET modules == HelpModules(s)
        shown == SelectSeq(GetEnabledModulesF(s, order),
                     LAMBDA n : n \in DOMAIN modules /\ modules[n] # <<>>)
        off == SelectSeq(GetModulesF(s), LAMBDA n : ~IsModuleEnabledF(s, n))
    IN [kind |-> "listing", name |-> "",
        groups |-> [i \in DOMAIN shown |-> <<shown[i], modules[shown[i]]>>],
        disabled |-> off, hasDisabledModules |-> off # <<>>]

\* strings.Join(elems, ", ") as a sequence of symbols
RECURSIVE Join(_)
Join(S) ==
    IF S = {} THEN <<>>
    ELSE LET a == CHOOSE x \in S : TRUE
         IN <<", ", a>> \o Join(S \ {a})

\* NameAndAliases: the name and the aliases joined by ", "
NameAndAliases(c) == <<CmdName(c)>> \o Join(Aliases(c))

\* the single-command view compares the first argument with every command
HelpOne(s, cmdName) ==
    LET sorted == Commands(s.rootCmds)
        hits == {i \in DOMAIN sorted :
                    \/ <<CmdName(sorted[i])>> = cmdName
                    \/ NameAndAliases(sorted[i]) = cmdName}
    IN IF hits = {} THEN Printed("Unknown command", Str(cmdName))
       ELSE Printed("Command", CmdName(sorted[CHOOSE i \in hits : \A j \in hits : i <= j]))

\* the help function set by the core module; Commands() leaves the root's
\* children sorted
HelpFunc(s, cmd, args, order) ==
    IF cmd = "root" /\ Len(args) = 0
    THEN [s |-> [s EXCEPT !.rootCmds = Commands(@)], out |-> HelpListing(s, order)]
    ELSE IF Len(args) > 0
    THEN [s |-> [s EXCEPT !.rootCmds = Commands(@)], out |-> HelpOne(s, args[1])]
    ELSE [s |-> s, out |-> Printed("default help", CmdName(cmd))]

IsFlag(tok) == tok \in {<<"--help">>, <<"-h">>}

\* stripFlags, for args whose flags come last: the non-empty tokens that
\* are not flags
StripFlags(args) == SelectSeq(args, LAMBDA t : t # <<>> /\ ~IsFlag(t))

\* the Run of the help command: Find the command its args name, call Help()
HelpRun(s, args, order) ==
    LET names == StripFlags(args)
        cmd == IF names = <<>> THEN "root" ELSE FindNext(s.rootCmds, names[1])
    IN IF cmd = "none"
       THEN [s |-> s, out |-> Printed("Unknown help topic", Str(names[1]))]
       ELSE HelpFunc(s, cmd, <<>>, order)

\* the Run of each command; call names the shell method the handler called
RunCommand(s, cmd, args, order) ==
    CASE cmd = "c_enable" ->
            LET r == EnableModuleF(s, Str(args[1]))
            IN [s |-> r.s, call |-> <<"EnableModule", Str(args[1])>>, ret |-> r.err,
                out |-> IF r.err # "nil" THEN Printed("Error", r.err)
                        ELSE Printed("enabled", Str(args[1]))]
      [] cmd = "c_disable" ->
            LET r == DisableModuleF(s, Str(args[1]))
            IN [s |-> r.s, call |-> <<"DisableModule", Str(args[1])>>, ret |-> r.err,
                out |-> IF r.err # "nil" THEN Printed("Error", r.err)
                        ELSE Printed("disabled", Str(args[1]))]
      [] cmd = "t_time" ->
            IF GetStateF(s, "start_time")[2]
            THEN [s |-> [s EXCEPT !.currentPrompt = "(elapsed) "],
                  call |-> <<"Execute">>, ret |-> "nil", out |-> Printed("ran", CmdName(cmd))]
            ELSE [s |-> s, call |-> <<"Execute">>, ret |-> "nil",
                  out |-> Printed("ran", CmdName(cmd))]
      [] cmd = "t_reset" ->
            [s |-> [SetStateF(s, "start_time", "now") EXCEPT !.currentPrompt = "> "],
             call |-> <<"Execute">>, ret |-> "nil", out |-> Printed("ran", CmdName(cmd))]
      [] cmd = HelpCmd ->
            LET r == HelpRun(s, args, order)
            IN [s |-> r.s, call |-> <<"Execute">>, ret |-> "nil", out |-> r.out]
      [] OTHER -> [s |-> s, call |-> <<"Execute">>, ret |-> "nil",
                   out |-> Printed("ran", CmdName(cmd))]

\* Execute: find the command of the first token that is neither empty nor
\* a flag; with the help flag call the help function with all the args,
\* else validate and run. err is what Execute returns. exit names the exit
\* command found, whose Run is carried out by RunExitHook and OriginalExit.
ExecuteF(s, args, order) ==
    LET s1 == [s EXCEPT !.rootCmds = InitDefaultHelpCmd(@)]
        argsWOflags == StripFlags(args)
        cmd == IF argsWOflags = <<>> THEN "root" ELSE FindNext(s1.rootCmds, argsWOflags[1])
        flags == IF argsWOflags = <<>> THEN args ELSE ArgsMinusFirstX(args, argsWOflags[1])
        cmdArgs == SelectSeq(flags, LAMBDA t : ~IsFlag(t))
        fail(e) == [s |-> s1, call |-> <<"Execute">>, ret |-> e, err |-> e,
                    exit |-> "none", out |-> NoOut]
    IN IF cmd = "none"
       THEN fail("unknown command")
       ELSE IF \E i \in DOMAIN flags : IsFlag(flags[i])
       THEN LET h == HelpFunc(s1, cmd, args, order)
            IN [s |-> h.s, call |-> <<"Execute">>, ret |-> "nil", err |-> "nil",
                exit |-> "none", out |-> h.out]
       ELSE IF cmd = "root"
       THEN [s |-> s1, call |-> <<"Execute">>, ret |-> "nil", err |-> "nil",
             exit |-> "none", out |-> Printed("default help", "")]
       ELSE IF cmd \in {"c_enable", "c_disable"} /\ Len(cmdArgs) # 1
       THEN fail("accepts 1 arg(s)")
       ELSE IF CmdName(cmd) = "exit"
       THEN [s |-> s1, call |-> <<"Execute">>, ret |-> "nil", err |-> "nil",
             exit |-> cmd, out |-> NoOut]
       ELSE LET r == RunCommand(s1, cmd, cmdArgs, order)
            IN [s |-> r.s, call |-> r.call, ret |-> r.ret, err |-> "nil",
                exit |-> "none", out |-> r.out]

----------------------------------------------------------------------------
(* The shell after NewShell *)

EmptyShell ==
    [commandModules |-> <<>>, enabledModules |-> <<>>, moduleCommands |-> <<>>,
     rootCmds |-> <<>>, completer |-> <<>>, State |-> <<>>,
     runWrap |-> [c \in AllCmds |-> <<>>], currentPrompt |-> "> ",
     lastSet |-> <<>>, initLog |-> <<>>, hookSaw |-> <<>>]

NewShell == RegisterModuleF(EmptyShell, CoreModule)

Ctx == 1..NumCtx

NoSnap == [phase |-> "none", name |-> "", en |-> <<>>, root |-> <<>>]


Init ==
    /\ commandModules = NewShell.commandModules
    /\ enabledModules = NewShell.enabledModules
    /\ moduleCommands = NewShell.moduleCommands
    /\ rootCmds = NewShell.rootCmds
    /\ completer = NewShell.completer
    /\ State = NewShell.State
    /\ currentPrompt = NewShell.currentPrompt
    /\ runWrap = NewShell.runWrap
    /\ lastSet = NewShell.lastSet
    /\ initLog = NewShell.initLog
    /\ hookSaw = NewShell.hookSaw
    /\ rootArgs = <<>>
    /\ pc = "setup"
    /\ pending = <<>>
    /\ hookLog = <<>>
    /\ registered = <<>>
    /\ call = <<"NewShell">>
    /\ ret = "nil"
    /\ rep = FALSE
    /\ snap = NoSnap
    /\ out = NoOut
    /\ writers = {}
    /\ readers = {}
    /\ cpc = [c \in Ctx |-> "idle"]
    /\ creq = [c \in Ctx |-> <<>>]
    /\ cret = [c \in Ctx |-> <<>>]

\* the registry as it was before a DisableModule that took effect, kept
\* over the EnableModule of the same name that follows it
NextSnap(c, r) ==
    IF c[1] = "DisableModule" /\ r = "nil" /\ MapBool(enabledModules, c[2])
    THEN [phase |-> "disabled", name |-> c[2], en |-> enabledModules,
          root |-> RemoveCommand(rootCmds, HelpCmd)]
    ELSE IF c[1] = "EnableModule" /\ snap.phase = "disabled" /\ snap.name = c[2]
    THEN [snap EXCEPT !.phase = "restored"]
    ELSE NoSnap

\* the history of calls
RecordCall(c, r) ==
    /\ call' = c
    /\ ret' = r
    /\ rep' = (c = call)
    /\ snap' = NextSnap(c, r)

Record(c, r) ==
    /\ RecordCall(c, r)
    /\ out' = NoOut

----------------------------------------------------------------------------
(* Calls the application makes before Run *)

RegisterModule(m) ==
    /\ pc = "setup"
    /\ m \notin Range(commandModules)
    /\ Install(RegisterModuleF(Sh, m))
    /\ Record(<<"RegisterModule">>, "nil")
    /\ UNCHANGED <<sessVars, concVars>>

EnableModule(moduleName) ==
    /\ pc = "setup"
    /\ LET r == EnableModuleF(Sh, moduleName)
       IN Install(r.s) /\ Record(<<"EnableModule", moduleName>>, r.err)
    /\ UNCHANGED <<sessVars, concVars>>

DisableModule(moduleName) ==
    /\ pc = "setup"
    /\ LET r == DisableModuleF(Sh, moduleName)
       IN Install(r.s) /\ Record(<<"DisableModule", moduleName>>, r.err)
    /\ UNCHANGED <<sessVars, concVars>>

IsModuleEnabled(moduleName) ==
    /\ pc = "setup"
    /\ Record(<<"IsModuleEnabled", moduleName>>, IsModuleEnabledF(Sh, moduleName))
    /\ UNCHANGED <<shVars, sessVars, concVars>>

GetModules ==
    /\ pc = "setup"
    /\ Record(<<"GetModules">>, GetModulesF(Sh))
    /\ UNCHANGED <<shVars, sessVars, concVars>>

OnExit(fn) ==
    /\ pc = "setup"
    /\ fn = Len(registered) + 1
    /\ Install(OnExitF(Sh, fn))
    /\ registered' = Append(registered, fn)
    /\ Record(<<"OnExit">>, "nil")
    /\ UNCHANGED <<rootArgs, pc, pending, hookLog, concVars>>

\* a loop that an error returned by Execute ends
DispatchStopsOnError(args, from, order) ==
    LET r == ExecuteF(Sh, args, order)
    IN /\ Install(r.s)
       /\ RecordCall(r.call, r.ret)
       /\ out' = IF r.err # "nil" /\ from = "running"
                 THEN Printed("Error", r.err) ELSE r.out
       /\ IF r.exit = "none"
          THEN /\ rootArgs' = <<>>
               /\ pc' = IF r.err # "nil" /\ from = "running" THEN "returned" ELSE from
               /\ pending' = pending
          ELSE /\ rootArgs' = args
               /\ pc' = "exiting"
               /\ pending' = r.s.runWrap[r.exit]
       /\ UNCHANGED <<hookLog, registered, concVars>>

\* SetArgs(args), Execute(), and SetArgs(nil) unless the exit command runs;
\* Run prints the error Execute returns, ExecuteCommand returns it
DispatchOrder(args, from, order) ==
    LET r == ExecuteF(Sh, args, order)
    IN /\ Install(r.s)
       /\ RecordCall(r.call, r.ret)
       /\ out' = IF r.err # "nil" /\ from = "running"
                 THEN Printed("Error", r.err) ELSE r.out
       /\ IF r.exit = "none"
          THEN /\ rootArgs' = <<>>
               /\ pc' = from
               /\ pending' = pending
          ELSE /\ rootArgs' = args
               /\ pc' = "exiting"
               /\ pending' = r.s.runWrap[r.exit]
       /\ UNCHANGED <<hookLog, registered, concVars>>

\* the orders GetEnabledModules can return when the execution calls it
Orders(s, args) ==
    IF ExecuteF(s, args, <<>>).out.kind = "listing"
    THEN Perms(EnabledKeys(s)) ELSE {<<>>}

Dispatch(args, from) ==
    \E order \in Orders(Sh, args) : DispatchOrder(args, from, order)

ExecuteCommand(command) ==
    /\ pc = "setup"
    /\ Dispatch(Split(command), "setup")

----------------------------------------------------------------------------
(* Run: the read-execute loop *)

StartRun ==
    /\ pc = "setup"
    /\ pc' = "running"
    /\ Record(<<"Run">>, "nil")
    /\ UNCHANGED <<shVars, rootArgs, pending, hookLog, registered, concVars>>

\* one turn of the loop with a line read
ReadLine(line) ==
    /\ pc = "running"
    /\ IF TrimSpace(line) = <<>>
       THEN /\ Record(<<"Readline">>, "nil")
            /\ UNCHANGED <<shVars, sessVars, concVars>>
       ELSE Dispatch(Split(TrimSpace(line)), "running")

\* Readline returns an error (end of input or interrupt): the loop breaks
ReadError ==
    /\ pc = "running"
    /\ pc' = "returned"
    /\ Record(<<"Readline">>, "EOF")
    /\ UNCHANGED <<shVars, rootArgs, pending, hookLog, registered, concVars>>

\* the wrapped Run of the exit command calls its outermost handler
RunExitHook ==
    /\ pc = "exiting"
    /\ pending # <<>>
    /\ \/ /\ hookLog' = Append(hookLog, Head(pending))
          /\ pending' = Tail(pending)
          /\ pc' = pc
       \/ /\ pc' = "crashed"
          /\ UNCHANGED <<hookLog, pending>>
    /\ UNCHANGED <<shVars, rootArgs, registered, histVars, concVars>>

\* the exit command's own Run: "Goodbye!" and os.Exit(0)
OriginalExit ==
    /\ pc = "exiting"
    /\ pending = <<>>
    /\ pc' = "exited"
    /\ UNCHANGED <<shVars, rootArgs, pending, hookLog, registered, histVars, concVars>>

\* the lines typed in a session that ends with exit handlers registered
ExitLines == { <<"exit">>, <<"disable", " ", "timer">>, <<"bogus">> }

\* the registry under the calls of an application and the lines of a session
Next ==
    \/ \E m \in UserModules : RegisterModule(m)
    \/ \E n \in ModuleNames : EnableModule(n)
    \/ \E n \in ModuleNames : DisableModule(n)
    \/ \E n \in ModuleNames : IsModuleEnabled(n)
    \/ GetModules
    \/ StartRun
    \/ \E l \in Lines : ReadLine(l)
    \/ ReadError
    \/ OriginalExit

Spec == Init /\ [][Next]_vars

\* a session in which the user asks for help
NextHelp ==
    \/ \E m \in UserModules : RegisterModule(m)
    \/ \E n \in {"timer", "net"} : EnableModule(n)
    \/ \E n \in {"timer", "net"} : DisableModule(n)
    \/ StartRun
    \/ \E l \in HelpLines : ReadLine(l)

SpecHelp == Init /\ [][NextHelp]_vars

\* the same with exit handlers registered and every way a session ends
NextExit ==
    \/ \E m \in {TimerModule, NetModule} : RegisterModule(m)
    \/ \E n \in {"timer", "net"} : EnableModule(n)
    \/ \E n \in {"timer", "net"} : DisableModule(n)
    \/ \E fn \in Hooks : OnExit(fn)
    \/ \E l \in ExitLines : ExecuteCommand(l)
    \/ StartRun
    \/ \E l \in ExitLines : ReadLine(l)
    \/ ReadError
    \/ RunExitHook
    \/ OriginalExit

SpecExit == Init /\ [][NextExit]_vars

----------------------------------------------------------------------------
(* Run, one statement at a time: pc is "running" at the top of the loop,
   "reading" inside Readline, "executing" between SetArgs and the return of
   Execute, "broke" after the break *)

\* the loop calls s.rl.Readline()
BeginRead ==
    /\ pc = "running"
    /\ pc' = "reading"
    /\ UNCHANGED <<shVars, rootArgs, pending, hookLog, registered, histVars, concVars>>

\* Readline returns a line: trim, continue if empty, else Split and SetArgs
LineRead(line) ==
    /\ pc = "reading"
    /\ IF TrimSpace(line) = <<>>
       THEN /\ pc' = "running"
            /\ rootArgs' = rootArgs
            /\ Record(<<"Readline">>, "nil")
       ELSE /\ pc' = "executing"
            /\ rootArgs' = Split(TrimSpace(line))
            /\ Record(<<"SetArgs">>, "nil")
    /\ UNCHANGED <<shVars, pending, hookLog, registered, concVars>>

\* rootCmd.Execute() with the args set, the error printed, SetArgs(nil)
Execute ==
    /\ pc = "executing"
    /\ Dispatch(rootArgs, "running")

\* a loop that goes on reading after Readline failed
ReadFailsContinues ==
    /\ pc = "reading"
    /\ pc' = "running"
    /\ Record(<<"Readline">>, "EOF")
    /\ UNCHANGED <<shVars, rootArgs, pending, hookLog, registered, concVars>>

\* Readline returns an error (end of input or interrupt): break
ReadFails ==
    /\ pc = "reading"
    /\ pc' = "broke"
    /\ Record(<<"Readline">>, "EOF")
    /\ UNCHANGED <<shVars, rootArgs, pending, hookLog, registered, concVars>>

\* Run returns after the loop
Return ==
    /\ pc = "broke"
    /\ pc' = "returned"
    /\ UNCHANGED <<shVars, rootArgs, pending, hookLog, registered, histVars, concVars>>

\* the lines typed in a session followed statement by statement
LoopLines ==
    { <<"time">>, <<"bogus">>, <<" ">>, <<"disable", " ", "timer">>, <<"exit">>,
      <<"disable", " ", " ", "timer">>, <<"enable", "\t", "timer">> }

NextLoop ==
    \/ \E m \in {TimerModule} : RegisterModule(m)
    \/ \E fn \in Hooks : OnExit(fn)
    \/ StartRun
    \/ BeginRead
    \/ \E l \in LoopLines : LineRead(l)
    \/ Execute
    \/ ReadFails
    \/ Return
    \/ RunExitHook
    \/ OriginalExit

\* after the break nothing holds Run back from returning
SpecLoop == Init /\ [][NextLoop]_vars /\ WF_vars(Return)

----------------------------------------------------------------------------
(* A module using the values the ShellAPI getters return *)

\* api.GetModuleCommands()[moduleName] = nil: the map is the shell's own
WriteModuleCommands(moduleName) ==
    /\ pc = "setup"
    /\ moduleName \in DOMAIN GetModuleCommandsF(Sh)
    /\ Install([Sh EXCEPT !.moduleCommands = MapSet(GetModuleCommandsF(Sh), moduleName, <<>>)])
    /\ Record(<<"GetModuleCommands">>, "nil")
    /\ UNCHANGED <<sessVars, concVars>>

\* api.GetRootCmd().RemoveCommand(cmd): the root is the shell's own
RemoveFromRoot(cmd) ==
    /\ pc = "setup"
    /\ Install([Sh EXCEPT !.rootCmds = RemoveCommand(GetRootCmdF(Sh), cmd)])
    /\ Record(<<"GetRootCmd">>, "nil")
    /\ UNCHANGED <<sessVars, concVars>>

\* the commands a module takes off the root it was handed
HandleCmds == {"c_disable", "t_time"}

\* the application registers the timer module, whose code uses the getters
NextCap ==
    \/ \E m \in {TimerModule} : RegisterModule(m)
    \/ \E n \in {"timer"} : EnableModule(n)
    \/ \E n \in {"timer"} : DisableModule(n)
    \/ \E n \in {"timer"} : WriteModuleCommands(n)
    \/ \E c \in HandleCmds : RemoveFromRoot(c)

SpecCap == Init /\ [][NextCap]_vars

----------------------------------------------------------------------------
(* The shared state, called from the application's own context *)

Keys == {"start_time", "k2"}

\* values of the store; "nil" is the nil interface value, which may be stored
Vals == {"nil", "now", "v"}

\* sync.RWMutex: Lock waits for no writer and no reader, RLock for no writer
CanLock == writers = {} /\ readers = {}

\* RLock that does not wait for the writer
CanRLockAlways == TRUE

CanRLock == writers = {}

SetState(key, value) ==
    /\ pc = "setup"
    /\ CanLock
    /\ Install(SetStateF(Sh, key, value))
    /\ Record(<<"SetState", key, value>>, "nil")
    /\ UNCHANGED <<sessVars, concVars>>

GetState(key) ==
    /\ pc = "setup"
    /\ CanRLock
    /\ Record(<<"GetState", key>>, GetStateF(Sh, key))
    /\ UNCHANGED <<shVars, sessVars, concVars>>

\* the store under direct calls and under the timer module's Initialize
NextStore ==
    \/ \E k \in Keys, v \in Vals : SetState(k, v)
    \/ \E k \in Keys : GetState(k)
    \/ \E m \in {TimerModule} : RegisterModule(m)

SpecStore == Init /\ [][NextStore]_vars

----------------------------------------------------------------------------
(* The shared state, called from several contexts at once.  A call is cut  *)
(* at its lock operations, and the map assignment at its two ends: in      *)
(* between the entry is there but its value is not yet the one written.    *)

ConcVals == {"now", "v"}

Torn == "torn"

CallSetState(c, key, value) ==
    /\ cpc[c] = "idle"
    /\ cpc' = [cpc EXCEPT ![c] = "set_lock"]
    /\ creq' = [creq EXCEPT ![c] = <<"SetState", key, value>>]
    /\ cret' = [cret EXCEPT ![c] = <<>>]
    /\ UNCHANGED <<shVars, sessVars, histVars, writers, readers>>

Lock(c) ==
    /\ cpc[c] = "set_lock"
    /\ CanLock
    /\ writers' = writers \cup {c}
    /\ cpc' = [cpc EXCEPT ![c] = "set_write"]
    /\ UNCHANGED <<shVars, sessVars, histVars, readers, creq, cret>>

WriteBegin(c) ==
    /\ cpc[c] = "set_write"
    /\ State' = StateWrite(State, creq[c][2], Torn)
    /\ cpc' = [cpc EXCEPT ![c] = "set_writing"]
    /\ UNCHANGED <<commandModules, enabledModules, moduleCommands, rootCmds,
                   completer, currentPrompt, runWrap, lastSet, initLog,
                   hookSaw, sessVars,
                   histVars, writers, readers, creq, cret>>

WriteEnd(c) ==
    /\ cpc[c] = "set_writing"
    /\ Install(SetStateF(Sh, creq[c][2], creq[c][3]))
    /\ cpc' = [cpc EXCEPT ![c] = "set_unlock"]
    /\ UNCHANGED <<sessVars, histVars, writers, readers, creq, cret>>

Unlock(c) ==
    /\ cpc[c] = "set_unlock"
    /\ writers' = writers \ {c}
    /\ cpc' = [cpc EXCEPT ![c] = "idle"]
    /\ UNCHANGED <<shVars, sessVars, histVars, readers, creq, cret>>

CallGetState(c, key) ==
    /\ cpc[c] = "idle"
    /\ cpc' = [cpc EXCEPT ![c] = "get_lock"]
    /\ creq' = [creq EXCEPT ![c] = <<"GetState", key>>]
    /\ cret' = [cret EXCEPT ![c] = <<>>]
    /\ UNCHANGED <<shVars, sessVars, histVars, writers, readers>>

RLock(c) ==
    /\ cpc[c] = "get_lock"
    /\ CanRLock
    /\ readers' = readers \cup {c}
    /\ cpc' = [cpc EXCEPT ![c] = "get_read"]
    /\ UNCHANGED <<shVars, sessVars, histVars, writers, creq, cret>>

Read(c) ==
    /\ cpc[c] = "get_read"
    /\ cret' = [cret EXCEPT ![c] = GetStateF(Sh, creq[c][2])]
    /\ cpc' = [cpc EXCEPT ![c] = "get_unlock"]
    /\ UNCHANGED <<shVars, sessVars, histVars, writers, readers, creq>>

RUnlock(c) ==
    /\ cpc[c] = "get_unlock"
    /\ readers' = readers \ {c}
    /\ cpc' = [cpc EXCEPT ![c] = "idle"]
    /\ UNCHANGED <<shVars, sessVars, histVars, writers, creq, cret>>

NextConc ==
    \/ \E c \in Ctx, k \in Keys, v \in ConcVals : CallSetState(c, k, v)
    \/ \E c \in Ctx : Lock(c)
    \/ \E c \in Ctx : WriteBegin(c)
    \/ \E c \in Ctx : WriteEnd(c)
    \/ \E c \in Ctx : Unlock(c)
    \/ \E c \in Ctx, k \in Keys : CallGetState(c, k)
    \/ \E c \in Ctx : RLock(c)
    \/ \E c \in Ctx : Read(c)
    \/ \E c \in Ctx : RUnlock(c)

SpecConc == Init /\ [][NextConc]_vars

----------------------------------------------------------------------------
(* Properties *)

\* the names of the registered modules
RegisteredNames == {Name(commandModules[i]) : i \in DOMAIN commandModules}

DistinctNames ==
    \A i, j \in DOMAIN commandModules :
        i # j => Name(commandModules[i]) # Name(commandModules[j])

\* the module-contributed commands attached to the root, in the root's order
ModuleCmds == SelectSeq(rootCmds, LAMBDA c : c # HelpCmd)

EnabledNames == {n \in DOMAIN enabledModules : enabledModules[n]}

Lookup(m, k) == IF k \in DOMAIN m THEN <<m[k], TRUE>> ELSE <<"nil", FALSE>>

IsToggle(c) == c[1] \in {"EnableModule", "DisableModule"}

\* C1: with modules of pairwise distinct names, after every call the
\* module-contributed commands on the root are exactly the recorded commands
\* of the modules whose enabled flag is true.
NamespaceIsUnionOfEnabled ==
    DistinctNames =>
        Range(ModuleCmds) = UNION {Range(moduleCommands[n]) : n \in EnabledNames}

NamespaceWitness ==
    /\ DistinctNames
    /\ call = <<"DisableModule", "timer">>
    /\ ret = "nil"
    /\ TimerModule \in Range(commandModules)
    /\ NetModule \in Range(commandModules)
    /\ "t_time" \notin Range(rootCmds)
    /\ "n_ping" \in Range(rootCmds)

\* C2: DisableModule("core") returns the protected-module error and leaves
\* the enablement table, the command record and the namespace as they were.
DisableCoreRefused ==
    [][call' = <<"DisableModule", "core">> =>
          /\ ret' = "cannot disable core module"
          /\ enabledModules' = enabledModules
          /\ moduleCommands' = moduleCommands
          /\ ModuleCmds' = ModuleCmds]_vars

DisableCoreWitness ==
    /\ call = <<"DisableModule", "core">>
    /\ ret = "cannot disable core module"
    /\ pc = "running"
    /\ enabledModules["core"]
    /\ "c_exit" \in Range(rootCmds)

\* C3: EnableModule and DisableModule of a name no registered module has
\* return module-not-found, create no entry for the name and change neither
\* the enablement table, the module list nor the namespace.
UnknownModuleRefused ==
    [][(IsToggle(call') /\ call'[2] # "core" /\ call'[2] \notin RegisteredNames) =>
          /\ ret' = "module not found"
          /\ call'[2] \notin DOMAIN enabledModules'
          /\ enabledModules' = enabledModules
          /\ commandModules' = commandModules
          /\ ModuleCmds' = ModuleCmds]_vars

UnknownModuleWitness ==
    /\ call = <<"EnableModule", "ghost">>
    /\ ret = "module not found"
    /\ "ghost" \notin DOMAIN enabledModules
    /\ Len(commandModules) > 1

\* C4: an EnableModule (DisableModule) call that repeats the call just made
\* returns what that call returned and changes nothing; on a registered
\* module it returns success.
ToggleIdempotent ==
    [][(rep' /\ IsToggle(call')) =>
          /\ ret' = ret
          /\ (call'[2] \in RegisteredNames /\ call'[2] # "core" => ret' = "nil")
          /\ enabledModules' = enabledModules
          /\ commandModules' = commandModules
          /\ moduleCommands' = moduleCommands
          /\ ModuleCmds' = ModuleCmds]_vars

ToggleIdempotentWitness ==
    /\ rep
    /\ call = <<"EnableModule", "timer">>
    /\ ret = "nil"
    /\ "t_time" \in Range(rootCmds)

\* C5: in the calls of one context, GetState returns the value of the last
\* SetState of its key with found = TRUE, or found = FALSE when the key was
\* never set; SetState stores its value and leaves every other key alone.
StateRoundTrip ==
    /\ [](call[1] = "GetState" => ret = Lookup(lastSet, call[2]))
    /\ [](\A k \in Keys : Lookup(State, k) = Lookup(lastSet, k))
    /\ [][call'[1] = "SetState" =>
             /\ Lookup(State', call'[2]) = <<call'[3], TRUE>>
             /\ \A k \in Keys \ {call'[2]} : Lookup(State', k) = Lookup(State, k)]_vars

StateRoundTripWitness ==
    /\ call = <<"GetState", "k2">>
    /\ ret = <<"nil", TRUE>>
    /\ rep
    /\ Lookup(State, "start_time") = <<"v", TRUE>>

\* C6: under any interleaving the write lock is exclusive, no reader holds
\* the lock with a writer, and a GetState returns what the last completed
\* SetState of its key wrote (not-found when there is none), never the
\* value of a write in progress.
StoreLinearizable ==
    /\ Cardinality(writers) <= 1
    /\ (writers # {} => readers = {})
    /\ \A c \in Ctx :
          cpc[c] = "get_unlock" =>
              /\ cret[c] = Lookup(lastSet, creq[c][2])
              /\ cret[c][1] # Torn

StoreLinearizableWitness ==
    \E c, d \in Ctx :
        /\ cpc[c] = "get_unlock"
        /\ cret[c] = <<"v", TRUE>>
        /\ cpc[d] = "set_lock"
        /\ creq[d][2] = creq[c][2]

\* C7 as stated: the exit handlers run in the order of their registration,
\* all of them before the exit command terminates the process.
ExitHooksInRegistrationOrder ==
    /\ IsPrefix(hookLog, registered)
    /\ (pc = "exited" => hookLog = registered)

\* C7 as amended: the exit handlers run in the reverse of the order of their
\* registration, one after the other, all of them before the exit command
\* terminates the process.
ExitHooksInReverseOrder ==
    /\ IsPrefix(hookLog, Reverse(registered))
    /\ (pc = "exited" => hookLog = Reverse(registered))

ExitHooksOrderWitness ==
    /\ pc = "exited"
    /\ Len(registered) >= 2
    /\ hookLog = Reverse(registered)

\* C8: when the exit command reaches its termination step, every handler
\* registered with OnExit has been called exactly once, whatever modules
\* were registered, enabled or disabled before.
ExitHooksRunOnce ==
    /\ \A fn \in Range(registered) : Count(fn, hookLog) <= 1
    /\ (pc = "exited" => \A fn \in Range(registered) : Count(fn, hookLog) = 1)

ExitHooksRunOnceWitness ==
    /\ pc = "exited"
    /\ registered # <<>>
    /\ \A fn \in Range(registered) : Count(fn, hookLog) = 1
    /\ TimerModule \in Range(commandModules)
    /\ ~MapBool(enabledModules, "timer")

\* C9: however the session ends, by the exit command or by Run returning
\* on end of input or interrupt, every registered handler has run once.
ExitHooksRunOnEveryEnd ==
    pc \in {"exited", "returned"} =>
        \A fn \in Range(registered) : Count(fn, hookLog) = 1

\* C10: the names with an entry in the enablement table, the names with a
\* recorded command list and the names GetModules returns are the same set,
\* and the entry of "core" is there and true.
TablesAgreeAndCoreEnabled ==
    /\ DOMAIN enabledModules = DOMAIN moduleCommands
    /\ DOMAIN enabledModules = Range(GetModulesF(Sh))
    /\ "core" \in DOMAIN enabledModules
    /\ enabledModules["core"]

TablesAgreeWitness ==
    /\ call = <<"IsModuleEnabled", "ghost">>
    /\ ret = FALSE
    /\ Len(commandModules) = 4
    /\ ~MapBool(enabledModules, "timer")


\* C11: GetModules returns the names of the registered modules in the
\* order of the RegisterModule calls, "core" first: a RegisterModule call
\* appends its module's name and no other call changes the result.
GetModulesInRegistrationOrder ==
    /\ [](GetModulesF(Sh)[1] = "core")
    /\ [](call = <<"GetModules">> => ret = GetModulesF(Sh) /\ ret[1] = "core")
    /\ [][\/ GetModulesF(Sh)' = GetModulesF(Sh)
          \/ /\ call' = <<"RegisterModule">>
             /\ \E m \in UserModules \ Range(commandModules) :
                   GetModulesF(Sh)' = Append(GetModulesF(Sh), Name(m))]_vars

GetModulesWitness ==
    /\ call = <<"GetModules">>
    /\ ret = <<"core", "timer">>
    /\ ~MapBool(enabledModules, "timer")


\* the names a line can use for a command
CmdWords == {CmdName(c) : c \in AllCmds} \cup UNION {Aliases(c) : c \in AllCmds}

\* the words that resolve to a command of the root
Resolvable(cmds) == {w \in CmdWords : FindNext(cmds, <<w>>) # "none"}

\* the no-argument help lists the command name in the group of the module
ListedBy(s, moduleName, name) ==
    \A order \in Perms(EnabledKeys(s)) :
        \E i \in DOMAIN HelpListing(s, order).groups :
            /\ HelpListing(s, order).groups[i][1] = moduleName
            /\ name \in Range(HelpListing(s, order).groups[i][2])

DisabledInOrder ==
    LET off == SelectSeq(commandModules, LAMBDA m : ~MapBool(enabledModules, Name(m)))
    IN [i \in DOMAIN off |-> Name(off[i])]

\* the command names of the enabled modules, and help
EnabledCmdNames ==
    {CmdName(c) : c \in UNION {Range(GetCommands(m)) :
                       m \in {x \in Range(commandModules) : MapBool(enabledModules, Name(x))}}}
        \cup {CmdName(HelpCmd)}

\* C13: with distinctly named modules, the no-argument help has a group
\* only for enabled modules and shows no command name that only a disabled
\* module contributes; its "Disabled modules" section lists exactly the
\* registered modules whose flag is false, in registration order, and is
\* left out when there are none.
HelpListingFollowsEnablement ==
    (DistinctNames /\ out.kind = "listing") =>
        /\ \A i \in DOMAIN out.groups :
              /\ MapBool(enabledModules, out.groups[i][1])
              /\ Range(out.groups[i][2]) \subseteq EnabledCmdNames
        /\ out.disabled = DisabledInOrder
        /\ out.hasDisabledModules = (DisabledInOrder # <<>>)

HelpListingWitness ==
    /\ DistinctNames
    /\ out.kind = "listing"
    /\ out.disabled = <<"timer">>
    /\ \E i \in DOMAIN out.groups : out.groups[i][1] = "core"
    /\ TimerModule \in Range(commandModules)


\* the registered modules whose name has a true flag
EnabledModules == {m \in Range(commandModules) : MapBool(enabledModules, Name(m))}

\* C14: after any sequence of RegisterModule, EnableModule and
\* DisableModule calls, module names reused or not, the module-contributed
\* commands on the root are exactly the descriptors of the modules that are
\* enabled, each of them once.
NamespaceExactUnderNameReuse ==
    /\ Range(ModuleCmds) = UNION {Range(GetCommands(m)) : m \in EnabledModules}
    /\ \A c \in AllCmds : Count(c, rootCmds) <= 1


\* C15: a module has read-only access to the command table and never the
\* raw registry: a step changes the module-to-commands record or the
\* commands on the root only when it is a RegisterModule, EnableModule or
\* DisableModule call.
OnlyRegistryCallsChangeNamespace ==
    [][(moduleCommands' # moduleCommands \/ Range(rootCmds') # Range(rootCmds))
          => call'[1] \in {"RegisterModule", "EnableModule", "DisableModule"}]_vars


\* C16: RegisterModule calls the module's Initialize once per registration,
\* after its other steps: when Initialize starts the module is in the
\* module list, its commands are recorded under its name, its flag is true
\* and its commands are on the root; a DisableModule of its own name from
\* inside Initialize returns nil, and when RegisterModule returns the root
\* holds exactly the commands of the enabled names.
InitializeRunsOnceAfterSetup ==
    /\ initLog = commandModules
    /\ hookSaw.listed /\ hookSaw.recorded /\ hookSaw.enabled /\ hookSaw.attached
    /\ hookSaw.module = NetModule => hookSaw.selfErr = "nil"
    /\ (call = <<"RegisterModule">> /\ DistinctNames) =>
          /\ Range(ModuleCmds) = UNION {Range(GetCommands(m)) : m \in EnabledModules}
          /\ \A c \in AllCmds : Count(c, rootCmds) <= 1

InitializeWitness ==
    /\ call = <<"RegisterModule">>
    /\ hookSaw.module = NetModule
    /\ hookSaw.selfErr = "nil"
    /\ ~MapBool(enabledModules, "net")
    /\ "n_ping" \notin Range(rootCmds)
    /\ Len(initLog) = 3


\* C17: in every state no two commands on the root have the same name,
\* also after two enabled modules each contributed a command of one name.
CommandNamesUnique ==
    \A i, j \in DOMAIN rootCmds :
        CmdName(rootCmds[i]) = CmdName(rootCmds[j]) => i = j


\* the place of a module name in the order of registration
RegIndex(n) ==
    CHOOSE i \in DOMAIN commandModules :
        /\ Name(commandModules[i]) = n
        /\ \A j \in DOMAIN commandModules : Name(commandModules[j]) = n => i <= j

\* C18: the no-argument help prints the groups of the enabled modules in
\* the order the modules were registered.
HelpGroupsInRegistrationOrder ==
    (DistinctNames /\ out.kind = "listing") =>
        \A i, j \in DOMAIN out.groups :
            i < j => RegIndex(out.groups[i][1]) < RegIndex(out.groups[j][1])


\* C19: the single-command help shows a command's detail when the token
\* asked for is the name or an alias of a command on the root, and prints
\* "Unknown command" with the token only when it is neither; Execute
\* returns nil either way.
SingleHelpMatchesNameOrAlias ==
    /\ out.kind = "Unknown command" => out.name \notin Resolvable(rootCmds)
    /\ out.kind = "Command" => \E c \in Range(rootCmds) : CmdName(c) = out.name
    /\ out.kind \in {"Unknown command", "Command"} => call = <<"Execute">> /\ ret = "nil"


\* C20: in the loop of Run an execution that fails (unknown command, wrong
\* number of arguments, enable or disable refused) prints the error, resets
\* the args and reads the next line; the loop is left only when Readline
\* fails or the exit command runs; a line that is empty after trimming runs
\* nothing and changes nothing.
LoopSurvivesErrors ==
    [][pc = "running" =>
          /\ (call'[1] \in {"Execute", "EnableModule", "DisableModule"} /\ ret' # "nil")
                => /\ pc' = "running"
                   /\ rootArgs' = <<>>
                   /\ out' = Printed("Error", ret')
          /\ pc' # "running"
                => \/ call' = <<"Readline">> /\ ret' = "EOF" /\ pc' = "returned"
                   \/ call' = <<"Execute">> /\ ret' = "nil" /\ pc' = "exiting"
          /\ (call' = <<"Readline">> /\ ret' = "nil")
                => UNCHANGED <<shVars, sessVars>> /\ out' = NoOut]_vars

LoopSurvivesErrorsWitness ==
    /\ pc = "running"
    /\ call = <<"Execute">>
    /\ ret = "unknown command"
    /\ out = Printed("Error", "unknown command")
    /\ rootArgs = <<>>


\* the steps the loop of Run may take between its positions
LoopEdges ==
    { <<"setup", "running">>, <<"running", "reading">>, <<"reading", "executing">>,
      <<"reading", "running">>, <<"executing", "running">>,
      <<"executing", "exiting">>, <<"reading", "broke">>, <<"broke", "returned">>,
      <<"exiting", "exited">>, <<"exiting", "crashed">> }

\* C21: Run goes from the top of the loop to reading, from reading to
\* executing and back to the top; a read starts only at the top of the
\* loop, never while a command executes, and a command executes only on
\* the line just read; Run ends only from reading, on a Readline error, or
\* in the exit command; once Readline has failed no command executes and,
\* the statements of Run being taken, Run returns.
RunIsReadExecuteLoop ==
    /\ [][pc' # pc =>
            /\ <<pc, pc'>> \in LoopEdges
            /\ pc' = "reading" => rootArgs = <<>> /\ pending = <<>>
            /\ (pc = "reading" /\ pc' = "running")
                  => call' = <<"Readline">> /\ ret' = "nil"
            /\ pc' = "broke" => call' = <<"Readline">> /\ ret' = "EOF"
            /\ pc = "broke" => UNCHANGED <<shVars, histVars, rootArgs>>]_vars
    /\ [][shVars' # shVars => pc \in {"setup", "executing"}]_vars
    /\ [](pc \in {"running", "reading", "broke", "returned"} => rootArgs = <<>>)
    /\ [](pc = "executing" => rootArgs # <<>>)
    /\ (pc = "broke") ~> (pc = "returned")

RunLoopWitness ==
    /\ pc = "returned"
    /\ call = <<"Readline">>
    /\ ret = "EOF"
    /\ TimerModule \in Range(commandModules)
    /\ currentPrompt = "(elapsed) "


\* C22: the args Run hands to Execute are the words of the line: no token
\* is empty and no token holds a space or a tab, whatever separates the
\* words of the line.
TokensAreWords ==
    \A i \in DOMAIN rootArgs :
        /\ rootArgs[i] # <<>>
        /\ \A k \in DOMAIN rootArgs[i] : ~IsSpace(rootArgs[i][k])

====
